---------------------------- MODULE Spec2Model ----------------------------
(* A model of src/src/skyline.rs: the Building primitive, the Skyline       *)
(* constructors and mutators, and the two sweeps merge and overlap.         *)
(*                                                                          *)
(* f64 values are modelled as extended rationals <<n, d>>:                  *)
(*   d > 0, gcd(n, d) = 1   the finite value n/d                            *)
(*   <<1, 0>>, <<-1, 0>>     +infinity, -infinity                            *)
(*   <<0, 0>>                NaN                                             *)
(* with the IEEE-754 rules for infinities and NaN in +, -, *, /, the        *)
(* comparisons, and f64::max / f64::min.  Rounding is not modelled.         *)
EXTENDS Integers, Sequences, FiniteSets

(***************************************************************************)
(* Extended rational arithmetic (f64)                                      *)
(***************************************************************************)
Abs(n) == IF n < 0 THEN -n ELSE n

Sgn(n) == IF n < 0 THEN -1 ELSE IF n > 0 THEN 1 ELSE 0

RECURSIVE Gcd(_, _)
Gcd(a, b) == IF b = 0 THEN a ELSE Gcd(b, a % b)

\* The f64 n/d in lowest terms; d = 0 gives an infinity (or NaN for 0/0).
Norm(n, d) ==
    IF d = 0 THEN <<Sgn(n), 0>>
    ELSE LET g == Gcd(Abs(n), Abs(d))
             s == IF d < 0 THEN -1 ELSE 1
         IN  <<(s * n) \div g, (s * d) \div g>>

R(n) == <<n, 1>>

PosInf == <<1, 0>>

NegInf == <<-1, 0>>

NaN == <<0, 0>>

is_nan(a) == a = NaN

is_infinite(a) == a[2] = 0 /\ a[1] # 0

IsFinite(a) == a[2] # 0

FNeg(a) == <<-a[1], a[2]>>

\* a + b: inf + (-inf) and anything with NaN are NaN.
FAdd(a, b) ==
    IF is_nan(a) \/ is_nan(b) THEN NaN
    ELSE IF a[2] = 0 /\ b[2] = 0 THEN (IF a[1] = b[1] THEN a ELSE NaN)
    ELSE IF a[2] = 0 THEN a
    ELSE IF b[2] = 0 THEN b
    ELSE Norm(a[1] * b[2] + b[1] * a[2], a[2] * b[2])

FSub(a, b) == FAdd(a, FNeg(b))

\* a * b: 0 * inf and anything with NaN are NaN.
FMul(a, b) ==
    IF is_nan(a) \/ is_nan(b) THEN NaN
    ELSE IF a[2] = 0 \/ b[2] = 0
         THEN (IF a[1] = 0 \/ b[1] = 0 THEN NaN ELSE <<Sgn(a[1]) * Sgn(b[1]), 0>>)
    ELSE Norm(a[1] * b[1], a[2] * b[2])

\* a / b: 0/0 and inf/inf are NaN, x/0 is an infinity with the sign of x
\* (the zero divisor of the program is m - m, which is +0.0), x/inf is 0.
FDiv(a, b) ==
    IF is_nan(a) \/ is_nan(b) THEN NaN
    ELSE IF a[2] = 0 /\ b[2] = 0 THEN NaN
    ELSE IF a[2] = 0 THEN <<a[1] * (IF b[1] < 0 THEN -1 ELSE 1), 0>>
    ELSE IF b[2] = 0 THEN R(0)
    ELSE IF b[1] = 0 THEN <<Sgn(a[1]), 0>>
    ELSE Norm(a[1] * b[2], a[2] * b[1])

\* a < b; false when either is NaN.
FLt(a, b) ==
    IF is_nan(a) \/ is_nan(b) THEN FALSE
    ELSE IF a[2] = 0 /\ b[2] = 0 THEN a[1] < b[1]
    ELSE a[1] * b[2] < b[1] * a[2]

\* a == b; false when either is NaN.
FEq(a, b) == ~is_nan(a) /\ ~is_nan(b) /\ a = b

FLe(a, b) == FLt(a, b) \/ FEq(a, b)

FGt(a, b) == FLt(b, a)

FGe(a, b) == FLe(b, a)

\* f64::max and f64::min return the other operand when one is NaN.
FMax(a, b) == IF is_nan(a) THEN b ELSE IF is_nan(b) THEN a ELSE IF FLt(a, b) THEN b ELSE a

FMin(a, b) == IF is_nan(a) THEN b ELSE IF is_nan(b) THEN a ELSE IF FLt(b, a) THEN b ELSE a

(***************************************************************************)
(* Building                                                                *)
(***************************************************************************)
MAX_SLOPE == 1000

Building(m, b, end) == [m |-> m, b |-> b, end |-> end]

\* Mutant of from_points: the smaller of the two point-implied intercepts.
from_points_min_intercept(x1, y1, x2, y2) ==
    IF FEq(x1, x2)
    THEN Building(R(0), FMax(y1, y2), x1)
    ELSE LET m_orig == FDiv(FSub(y2, y1), FSub(x2, x1))
             m == FMin(FMax(m_orig, R(-MAX_SLOPE)), R(MAX_SLOPE))
             b == FMin(FSub(y1, FMul(m, x1)), FSub(y2, FMul(m, x2)))
         IN  Building(m, b, FMax(x1, x2))

from_points(x1, y1, x2, y2) ==
    IF FEq(x1, x2)
    THEN Building(R(0), FMax(y1, y2), x1)
    ELSE LET m_orig == FDiv(FSub(y2, y1), FSub(x2, x1))
             m == FMin(FMax(m_orig, R(-MAX_SLOPE)), R(MAX_SLOPE))
             b == FMax(FSub(y1, FMul(m, x1)), FSub(y2, FMul(m, x2)))
         IN  Building(m, b, FMax(x1, x2))

intersection(self, other) ==
    LET x == FDiv(FSub(other.b, self.b), FSub(self.m, other.m))
    IN  IF is_nan(x) THEN NegInf ELSE x

conceals_with_intersect(self, other, x, intersect) ==
    IF FEq(self.m, other.m)
    THEN FGe(self.b, other.b)
    ELSE (FLe(intersect, x) /\ FGt(self.m, other.m))
         \/ (FGt(intersect, x) /\ FLt(self.m, other.m))

conceals(self, other, x) ==
    conceals_with_intersect(self, other, x, intersection(self, other))

building_empty(end) == Building(R(0), NegInf, end)

\* Mutant of chop: the piece keeps its own end.
chop_keeps_end(self, new_end) == Building(self.m, self.b, self.end)

chop(self, new_end) == Building(self.m, self.b, new_end)

y(self, x) == IF is_infinite(self.b) THEN self.b ELSE FAdd(FMul(self.m, x), self.b)

(***************************************************************************)
(* Direction and Flip                                                      *)
(***************************************************************************)
direction_multiplier(T) ==
    CASE T = "Up" -> R(1)
      [] T = "Down" -> R(-1)
      [] T = "Left" -> R(-1)
      [] T = "Right" -> R(1)

\* S: Flip<T>
Flip(S, T) ==
    \/ S = "Down" /\ T = "Up"
    \/ S = "Up" /\ T = "Down"
    \/ S = "Left" /\ T = "Right"
    \/ S = "Right" /\ T = "Left"

(***************************************************************************)
(* Skyline: constructors                                                   *)
(***************************************************************************)
skyline_empty == <<building_empty(PosInf)>>

\* Mutant of single: the leading empty piece ends at the larger x.
single_starts_at_max(T, x1, y1, x2, y2) ==
    LET mult == direction_multiplier(T)
        b == from_points(x1, FMul(y1, mult), x2, FMul(y2, mult))
        start == building_empty(FMax(x1, x2))
        end == building_empty(PosInf)
    IN  <<start, b, end>>

single(T, x1, y1, x2, y2) ==
    LET mult == direction_multiplier(T)
        b == from_points(x1, FMul(y1, mult), x2, FMul(y2, mult))
        start == building_empty(FMin(x1, x2))
        end == building_empty(PosInf)
    IN  <<start, b, end>>

(***************************************************************************)
(* Skyline::overlap: one iteration of the while loop, and the whole call   *)
(***************************************************************************)
overlap_continues(self, other, st) == st.i < Len(self) /\ st.j < Len(other)

overlap_body(self, other, st) ==
    LET b1 == self[st.i + 1]
        b2 == other[st.j + 1]
        first == FLt(b1.end, b2.end)
        end == IF first THEN b1.end ELSE b2.end
        d1 == FMax(st.dist, FAdd(y(b1, st.start), y(b2, st.start)))
        d2 == FMax(d1, FAdd(y(b1, end), y(b2, end)))
    IN  [i |-> IF first THEN st.i + 1 ELSE st.i,
         j |-> IF first THEN st.j ELSE st.j + 1,
         start |-> end,
         dist |-> d2]

overlap_init == [i |-> 0, j |-> 0, start |-> NegInf, dist |-> NegInf]

RECURSIVE overlap_run(_, _, _)
overlap_run(self, other, st) ==
    IF overlap_continues(self, other, st)
    THEN overlap_run(self, other, overlap_body(self, other, st))
    ELSE st.dist

overlap(self, other) == overlap_run(self, other, overlap_init)

(***************************************************************************)
(* Skyline::first_intersection: returns the f64 and the updated *idx       *)
(***************************************************************************)
RECURSIVE first_intersection(_, _, _, _)
\* Mutant of first_intersection: a crossing at start itself is returned.
first_intersection_at_start(b, bldgs, start, idx) ==
    IF idx < Len(bldgs)
    THEN LET other == bldgs[idx + 1]
             intersect == intersection(b, other)
         IN  IF conceals_with_intersect(b, other, start, intersect)
             THEN IF FGe(intersect, start) /\ FLt(intersect, FMin(b.end, other.end))
                  THEN [ret |-> intersect, idx |-> idx]
                  ELSE IF FLt(b.end, other.end)
                  THEN [ret |-> b.end, idx |-> idx]
                  ELSE first_intersection(b, bldgs, other.end, idx + 1)
             ELSE [ret |-> start, idx |-> idx]
    ELSE [ret |-> PosInf, idx |-> idx]

first_intersection(b, bldgs, start, idx) ==
    IF idx < Len(bldgs)
    THEN LET other == bldgs[idx + 1]
             intersect == intersection(b, other)
         IN  IF conceals_with_intersect(b, other, start, intersect)
             THEN IF FGt(intersect, start) /\ FLt(intersect, FMin(b.end, other.end))
                  THEN [ret |-> intersect, idx |-> idx]
                  ELSE IF FLt(b.end, other.end)
                  THEN [ret |-> b.end, idx |-> idx]
                  ELSE first_intersection(b, bldgs, other.end, idx + 1)
             ELSE [ret |-> start, idx |-> idx]
    ELSE [ret |-> PosInf, idx |-> idx]

(***************************************************************************)
(* Skyline::internal_merge: one iteration of the while loop, and the whole *)
(* call                                                                    *)
(***************************************************************************)
merge_continues(in1, in2, st) == st.i < Len(in1) /\ st.j < Len(in2)

\* Mutant of merge_body: the second branch pushes b1 instead of b2.
merge_body_pushes_b1(in1, in2, st) ==
    LET b1 == in1[st.i + 1]
        b2 == in2[st.j + 1]
    IN  IF conceals(b1, b2, st.start)
        THEN LET r == first_intersection(b1, in2, st.start, st.j)
             IN  [i |-> IF FGe(r.ret, b1.end) THEN st.i + 1 ELSE st.i,
                  j |-> r.idx,
                  start |-> r.ret,
                  out |-> Append(st.out, chop(b1, r.ret))]
        ELSE LET r == first_intersection(b2, in1, st.start, st.i)
             IN  [i |-> r.idx,
                  j |-> IF FGe(r.ret, b2.end) THEN st.j + 1 ELSE st.j,
                  start |-> r.ret,
                  out |-> Append(st.out, chop(b1, r.ret))]

\* Mutant of merge_body: the winner's cursor always advances.
merge_body_always_advances(in1, in2, st) ==
    LET b1 == in1[st.i + 1]
        b2 == in2[st.j + 1]
    IN  IF conceals(b1, b2, st.start)
        THEN LET r == first_intersection(b1, in2, st.start, st.j)
             IN  [i |-> st.i + 1,
                  j |-> r.idx,
                  start |-> r.ret,
                  out |-> Append(st.out, chop(b1, r.ret))]
        ELSE LET r == first_intersection(b2, in1, st.start, st.i)
             IN  [i |-> r.idx,
                  j |-> st.j + 1,
                  start |-> r.ret,
                  out |-> Append(st.out, chop(b2, r.ret))]

\* Mutant of merge_body: the winner's cursor advances only when start is
\* strictly past its end.
merge_body_strict_advance(in1, in2, st) ==
    LET b1 == in1[st.i + 1]
        b2 == in2[st.j + 1]
    IN  IF conceals(b1, b2, st.start)
        THEN LET r == first_intersection(b1, in2, st.start, st.j)
             IN  [i |-> IF FGt(r.ret, b1.end) THEN st.i + 1 ELSE st.i,
                  j |-> r.idx,
                  start |-> r.ret,
                  out |-> Append(st.out, chop(b1, r.ret))]
        ELSE LET r == first_intersection(b2, in1, st.start, st.i)
             IN  [i |-> r.idx,
                  j |-> IF FGt(r.ret, b2.end) THEN st.j + 1 ELSE st.j,
                  start |-> r.ret,
                  out |-> Append(st.out, chop(b2, r.ret))]

merge_body(in1, in2, st) ==
    LET b1 == in1[st.i + 1]
        b2 == in2[st.j + 1]
    IN  IF conceals(b1, b2, st.start)
        THEN LET r == first_intersection(b1, in2, st.start, st.j)
             IN  [i |-> IF FGe(r.ret, b1.end) THEN st.i + 1 ELSE st.i,
                  j |-> r.idx,
                  start |-> r.ret,
                  out |-> Append(st.out, chop(b1, r.ret))]
        ELSE LET r == first_intersection(b2, in1, st.start, st.i)
             IN  [i |-> r.idx,
                  j |-> IF FGe(r.ret, b2.end) THEN st.j + 1 ELSE st.j,
                  start |-> r.ret,
                  out |-> Append(st.out, chop(b2, r.ret))]

merge_init == [i |-> 0, j |-> 0, start |-> NegInf, out |-> <<>>]

RECURSIVE merge_run(_, _, _)
merge_run(in1, in2, st) ==
    IF merge_continues(in1, in2, st)
    THEN merge_run(in1, in2, merge_body(in1, in2, st))
    ELSE st.out

internal_merge(in1, in2) == merge_run(in1, in2, merge_init)

(***************************************************************************)
(* Skyline::slide and Skyline::bump                                        *)
(***************************************************************************)
slide(self, x) == [k \in 1..Len(self) |-> [self[k] EXCEPT !.end = FAdd(@, x)]]

bump(T, self, dy) ==
    LET yy == FMul(dy, direction_multiplier(T))
    IN  [k \in 1..Len(self) |-> [self[k] EXCEPT !.b = FAdd(@, yy)]]

(***************************************************************************)
(* Bounds and inputs of the exploration                                    *)
(***************************************************************************)
\* The work that may go into the two skylines together: the number of
\* pieces of both, plus two for every slide and bump call applied to them.
\* A constructor or mutator call that would exceed it is not made.
MaxWork == 7

Slots == {1, 2}

\* The type parameter of each skyline: the first is a Skyline<Up>, the second
\* a Skyline<Up> (to merge with the first) or a Skyline<Down> (its Flip, to
\* overlap with it).
Dirs(k) == IF k = 1 THEN {"Up"} ELSE {"Up", "Down"}

\* The coordinates handed to single(), and the offsets to slide() and bump().
XS == {R(0), R(1), R(2)}

YS == {R(0), R(1)}

DXS == {R(1)}

DYS == {R(1)}

(***************************************************************************)
(* State                                                                   *)
(***************************************************************************)
VARIABLES
    sky,     \* sky[k].buildings of the two Skyline values
    dir,     \* the Direction type parameter of each
    moves,   \* how many slide and bump calls went into each (part of the work)
    vert,    \* whether a vertical segment (x1 == x2) went into each
    pc,      \* "idle", or the call in progress: "merge", "overlap"
    callee,  \* <<self, other>>: the slots of the call in progress
    i, j, start,   \* the locals of internal_merge / overlap
    out,     \* new_bldgs of merge
    dist,    \* dist of overlap
    probe    \* arguments and result of a direct Building::from_points call

vars == <<sky, dir, moves, vert, pc, callee, i, j, start, out, dist, probe>>

locals == <<i, j, start, out, dist, callee>>

NoProbe == [x1 |-> R(0), y1 |-> R(0), x2 |-> R(0), y2 |-> R(0),
            bld |-> from_points(R(0), R(0), R(0), R(0))]

Init ==
    /\ sky = [k \in Slots |-> skyline_empty]
    /\ dir = [k \in Slots |-> "Up"]
    /\ moves = [k \in Slots |-> 0]
    /\ vert = [k \in Slots |-> FALSE]
    /\ pc = "idle"
    /\ callee = <<1, 2>>
    /\ i = 0 /\ j = 0 /\ start = NegInf
    /\ out = <<>>
    /\ dist = NegInf
    /\ probe = NoProbe

Other(k) == 3 - k

Work(k) == Len(sky[k]) + 2 * moves[k]


(***************************************************************************)
(* Constructors and simple mutators                                        *)
(***************************************************************************)
Empty(k, T) ==
    /\ pc = "idle"
    /\ sky' = [sky EXCEPT ![k] = skyline_empty]
    /\ dir' = [dir EXCEPT ![k] = T]
    /\ moves' = [moves EXCEPT ![k] = 0]
    /\ vert' = [vert EXCEPT ![k] = FALSE]
    /\ UNCHANGED <<pc, locals, probe>>

\* A slot is overwritten with single() only while it holds empty(): Empty is
\* always possible, so the same skylines are reached with fewer transitions.
Single(k, T, x1, y1, x2, y2) ==
    /\ pc = "idle"
    /\ sky[k] = skyline_empty
    /\ 3 + Work(Other(k)) <= MaxWork
    /\ sky' = [sky EXCEPT ![k] = single(T, x1, y1, x2, y2)]
    /\ dir' = [dir EXCEPT ![k] = T]
    /\ moves' = [moves EXCEPT ![k] = 0]
    /\ vert' = [vert EXCEPT ![k] = (x1 = x2)]
    /\ UNCHANGED <<pc, locals, probe>>

Slide(k, x) ==
    /\ pc = "idle"
    /\ Work(1) + Work(2) + 2 <= MaxWork
    /\ sky' = [sky EXCEPT ![k] = slide(sky[k], x)]
    /\ moves' = [moves EXCEPT ![k] = @ + 1]
    /\ UNCHANGED <<dir, vert, pc, locals, probe>>

Bump(k, dy) ==
    /\ pc = "idle"
    /\ Work(1) + Work(2) + 2 <= MaxWork
    /\ sky' = [sky EXCEPT ![k] = bump(dir[k], sky[k], dy)]
    /\ moves' = [moves EXCEPT ![k] = @ + 1]
    /\ UNCHANGED <<dir, vert, pc, locals, probe>>

(***************************************************************************)
(* merge: self.merge(&other), one action per loop iteration                *)
(***************************************************************************)
in1 == sky[callee[1]]

in2 == sky[callee[2]]

mst == [i |-> i, j |-> j, start |-> start, out |-> out]

ost == [i |-> i, j |-> j, start |-> start, dist |-> dist]

MergeBegin(k, l) ==
    /\ pc = "idle"
    /\ k # l
    /\ dir[k] = dir[l]
    /\ Work(k) + Work(l) <= MaxWork
    /\ pc' = "merge"
    /\ callee' = <<k, l>>
    /\ i' = merge_init.i /\ j' = merge_init.j /\ start' = merge_init.start
    /\ out' = merge_init.out
    /\ UNCHANGED <<sky, dir, moves, vert, dist, probe>>

MergeLoop ==
    /\ pc = "merge"
    /\ merge_continues(in1, in2, mst)
    /\ LET n == merge_body(in1, in2, mst)
       IN  /\ i' = n.i /\ j' = n.j /\ start' = n.start
           /\ out' = n.out
    /\ UNCHANGED <<sky, dir, moves, vert, pc, callee, dist, probe>>

\* self.buildings = new_bldgs
MergeEnd ==
    /\ pc = "merge"
    /\ ~merge_continues(in1, in2, mst)
    /\ sky' = [sky EXCEPT ![callee[1]] = out]
    /\ moves' = [moves EXCEPT ![callee[1]] = @ + moves[callee[2]]]
    /\ vert' = [vert EXCEPT ![callee[1]] = @ \/ vert[callee[2]]]
    /\ pc' = "idle"
    /\ callee' = <<1, 2>>
    /\ i' = 0 /\ j' = 0 /\ start' = NegInf
    /\ out' = <<>>
    /\ UNCHANGED <<dir, dist, probe>>

(***************************************************************************)
(* overlap: self.overlap(&other), one action per loop iteration            *)
(***************************************************************************)
OverlapBegin(k, l) ==
    /\ pc = "idle"
    /\ k # l
    /\ Flip(dir[l], dir[k])
    /\ pc' = "overlap"
    /\ callee' = <<k, l>>
    /\ i' = overlap_init.i /\ j' = overlap_init.j /\ start' = overlap_init.start
    /\ dist' = overlap_init.dist
    /\ UNCHANGED <<sky, dir, moves, vert, out, probe>>

OverlapLoop ==
    /\ pc = "overlap"
    /\ overlap_continues(in1, in2, ost)
    /\ LET n == overlap_body(in1, in2, ost)
       IN  /\ i' = n.i /\ j' = n.j /\ start' = n.start
           /\ dist' = n.dist
    /\ UNCHANGED <<sky, dir, moves, vert, pc, callee, out, probe>>

\* return dist
OverlapEnd ==
    /\ pc = "overlap"
    /\ ~overlap_continues(in1, in2, ost)
    /\ pc' = "idle"
    /\ callee' = <<1, 2>>
    /\ i' = 0 /\ j' = 0 /\ start' = NegInf
    /\ dist' = NegInf
    /\ UNCHANGED <<sky, dir, moves, vert, out, probe>>

Next ==
    \/ \E k \in Slots : \E T \in Dirs(k) : Empty(k, T)
    \/ \E k \in Slots : \E T \in Dirs(k), x1 \in XS, y1 \in YS, x2 \in XS, y2 \in YS :
          Single(k, T, x1, y1, x2, y2)
    \/ \E k \in Slots, x \in DXS : Slide(k, x)
    \/ \E k \in Slots, dy \in DYS : Bump(k, dy)
    \/ \E k \in Slots, l \in Slots : MergeBegin(k, l)
    \/ MergeLoop
    \/ MergeEnd
    \/ \E k \in Slots, l \in Slots : OverlapBegin(k, l)
    \/ OverlapLoop
    \/ OverlapEnd

Spec == Init /\ [][Next]_vars

(***************************************************************************)
(* Building::from_points called directly, on coordinates that also make    *)
(* the raw slope exceed MAX_SLOPE                                          *)
(***************************************************************************)
FPXS == {R(-1), R(0), R(1), R(2)}

FPYS == {R(-1001), R(0), R(1), R(1001)}

FromPoints(x1, y1, x2, y2) ==
    /\ probe' = [x1 |-> x1, y1 |-> y1, x2 |-> x2, y2 |-> y2,
                 bld |-> from_points(x1, y1, x2, y2)]
    /\ UNCHANGED <<sky, dir, moves, vert, pc, locals>>

NextFP == \E x1 \in FPXS, y1 \in FPYS, x2 \in FPXS, y2 \in FPYS : FromPoints(x1, y1, x2, y2)

SpecFP == Init /\ [][NextFP]_vars

(***************************************************************************)
(* What a skyline evaluates to                                             *)
(***************************************************************************)
\* The left boundary of piece k: the previous piece's end.
PieceStart(S, k) == IF k = 1 THEN NegInf ELSE S[k - 1].end

\* The pieces whose closed domain [previous end, own end] contains x.
PiecesAt(S, x) == {k \in 1..Len(S) : FLe(PieceStart(S, k), x) /\ FLe(x, S[k].end)}

\* The greatest of a finite set of values, -infinity for the empty set.
SetMax(V) == IF V = {} THEN NegInf ELSE CHOOSE v \in V : \A w \in V : FLe(w, v)

\* The value of skyline S at x: the upper envelope of the pieces at x.
Val(S, x) == SetMax({y(S[k], x) : k \in PiecesAt(S, x)})

Ends(S) == {S[k].end : k \in 1..Len(S)}

Crossings(A, B) == {intersection(A[p], B[q]) : p \in 1..Len(A), q \in 1..Len(B)}

Succ(P, p) == CHOOSE q \in P : FLt(p, q) /\ \A r \in P : FLt(p, r) => FLe(q, r)

\* Dense sampling: every finite breakpoint in P, two points strictly between
\* every two adjacent ones, and a point beyond each extreme.  Between two
\* adjacent points of P every skyline whose ends (and crossings) are in P is
\* linear, so agreement on the samples is agreement everywhere.
Samples(P) ==
    LET F == {p \in P : IsFinite(p)}
        Inner == {p \in F : \E q \in F : FLt(p, q)}
        Third(p, n) == FAdd(p, FMul(Norm(n, 3), FSub(Succ(F, p), p)))
    IN  IF F = {} THEN {R(0)}
        ELSE F \cup {Third(p, 1) : p \in Inner} \cup {Third(p, 2) : p \in Inner}
               \cup {FSub(FNeg(SetMax({FNeg(p) : p \in F})), R(1))}
               \cup {FAdd(SetMax(F), R(1))}

MergeSamples(A, B, C) ==
    Samples(Ends(A) \cup Ends(B) \cup Ends(C) \cup Crossings(A, B))

MergeExit == pc = "merge" /\ ~merge_continues(in1, in2, mst)

OverlapExit == pc = "overlap" /\ ~overlap_continues(in1, in2, ost)

StrictEnds(S) == \A k \in 1..Len(S) : FLt(PieceStart(S, k), S[k].end)

MonotoneEnds(S) == \A k \in 1..Len(S) : FLe(PieceStart(S, k), S[k].end)

\* max over x of A(x) + B(x), by dense sampling.
MaxSum(A, B) ==
    SetMax({FAdd(Val(A, x), Val(B, x)) : x \in Samples(Ends(A) \cup Ends(B))})

(***************************************************************************)
(* Claims                                                                  *)
(***************************************************************************)

\* C1: when merge's loop has ended, the new piece sequence evaluates at every
\* x to the larger of what self (still the old value) and other evaluate to.
MergeIsPointwiseMax ==
    MergeExit =>
        \A x \in MergeSamples(in1, in2, out) :
            Val(out, x) = FMax(Val(in1, x), Val(in2, x))

\* C1 witness: a finished merge of a skyline holding a vertical segment with
\* a skyline of two segments, whose result has a sloped piece.
MergeIsPointwiseMaxWitness ==
    /\ MergeExit
    /\ vert[callee[1]] /\ Len(in2) >= 4
    /\ Len(out) >= 5
    /\ \E k \in 1..Len(out) : out[k].m # R(0) /\ IsFinite(out[k].b)

\* C2: the value overlap returns is the maximum over all x of the sum of
\* the two skylines, each evaluated on the closed domains of its pieces.
OverlapIsMaxSum == OverlapExit => dist = MaxSum(in1, in2)

\* C3: a step that slides a skyline by dx leaves it with, at x + dx, the value
\* it had at x, for every x.
SlideIsTranslation ==
    [][\A k \in Slots, dx \in DXS :
          Slide(k, dx) =>
              \A x \in Samples(Ends(sky[k])) :
                  Val(sky'[k], FAdd(x, dx)) = Val(sky[k], x)]_vars

\* C4 as stated: every skyline is non-empty, ends at +infinity, and has
\* strictly increasing end values.
EndsStrictlyIncreasing ==
    \A k \in Slots :
        /\ Len(sky[k]) >= 1
        /\ sky[k][Len(sky[k])].end = PosInf
        /\ StrictEnds(sky[k])

\* C4 as amended: every skyline is non-empty, ends at +infinity, and has
\* non-decreasing end values, which are strictly increasing unless a vertical
\* segment (x1 == x2) went into it.
EndsNonDecreasing ==
    \A k \in Slots :
        /\ Len(sky[k]) >= 1
        /\ sky[k][Len(sky[k])].end = PosInf
        /\ MonotoneEnds(sky[k])
        /\ (~vert[k] => StrictEnds(sky[k]))

\* C4 witness: a merged skyline that keeps the zero-width piece of a vertical
\* segment.
EndsNonDecreasingWitness ==
    \E k \in Slots :
        /\ pc = "idle" /\ vert[k]
        /\ Len(sky[k]) >= 5
        /\ ~StrictEnds(sky[k])

\* C5: when merge's loop has ended, the result evaluates everywhere like the
\* result of merging in the other order; and for two segments with a gap
\* between them both orders give the same five pieces: empty, segment, empty,
\* segment, empty.
MergeOrderIndependent ==
    MergeExit =>
        LET rev == internal_merge(in2, in1)
        IN  /\ \A x \in MergeSamples(in1, in2, out \o rev) : Val(out, x) = Val(rev, x)
            /\ (Len(in1) = 3 /\ Len(in2) = 3 /\ FLt(in1[2].end, in2[1].end)) =>
                   /\ out = <<in1[1], in1[2], in2[1], in2[2], in2[3]>>
                   /\ rev = out

\* C5 witness: a finished merge whose piece sequence differs from the one the
\* other order gives.
MergeOrderIndependentWitness ==
    /\ MergeExit
    /\ Len(out) >= 4
    /\ out # internal_merge(in2, in1)

\* C6: the piece from_points returns has its slope within
\* [-MAX_SLOPE, MAX_SLOPE], ends at max(x1, x2), and lies on or above both
\* points; for x1 == x2 it is flat at max(y1, y2).
FromPointsAboveEndpoints ==
    LET bld == probe.bld
    IN  /\ FLe(R(-MAX_SLOPE), bld.m) /\ FLe(bld.m, R(MAX_SLOPE))
        /\ bld.end = FMax(probe.x1, probe.x2)
        /\ FGe(y(bld, probe.x1), probe.y1)
        /\ FGe(y(bld, probe.x2), probe.y2)
        /\ (probe.x1 = probe.x2 =>
               bld.m = R(0) /\ bld.b = FMax(probe.y1, probe.y2))

\* C6 witness: a clamped slope, with the line strictly above one endpoint.
FromPointsAboveEndpointsWitness ==
    /\ probe.bld.m = R(MAX_SLOPE)
    /\ FGt(y(probe.bld, probe.x1), probe.y1)

LoopsProgress ==
    [][((pc = "merge" /\ pc' = "merge") \/ (pc = "overlap" /\ pc' = "overlap")) =>
          /\ i' >= i /\ j' >= j /\ FGe(start', start)
          /\ (i' > i \/ j' > j \/ FGt(start', start))]_vars

\* C8 witness: merge's loop stopped at a crossing, strictly inside both
\* current pieces, after both cursors had advanced.
LoopsProgressWitness ==
    /\ pc = "merge"
    /\ i >= 1 /\ j >= 1
    /\ merge_continues(in1, in2, mst)
    /\ FLt(start, in1[i + 1].end) /\ FLt(start, in2[j + 1].end)
    /\ start[2] > 1

\* C9 as stated: every piece merge pushes ends strictly after the sweep
\* position it was selected at (the end of the piece pushed before it).
MergeNeverEmitsZeroWidth == pc = "merge" => StrictEnds(out)

\* C9 as amended: the same, for inputs whose end values are strictly
\* increasing (no zero-width piece of a vertical segment).
MergeKeepsStrictEnds ==
    (pc = "merge" /\ StrictEnds(in1) /\ StrictEnds(in2)) => StrictEnds(out)

\* C9 witness: a finished merge of two skylines without zero-width pieces,
\* one of them of two segments.
MergeKeepsStrictEndsWitness ==
    /\ MergeExit
    /\ StrictEnds(in1) /\ StrictEnds(in2)
    /\ Len(in1) >= 4
    /\ Len(out) >= 5

\* C10: the value overlap returns is the value it returns with the operands
\* exchanged.
OverlapSymmetric == OverlapExit => dist = overlap(in2, in1)

=============================================================================
